---- MODULE Spec2Model ----
(***************************************************************************)
(* Model of the tbpweb data and form layer:                                *)
(*   base/models.py   Term, TermManager, OfficerPosition, Officer and the  *)
(*                    post_save / post_delete signal handlers              *)
(*   exams/forms.py   ExamForm, UploadForm, EditForm                       *)
(* Every operation is one request handled by the framework, so each action *)
(* is a whole handler.  Names of auth groups are sequences of words, so    *)
(* that 'Current {}'.format(name) and name__contains='Current' are         *)
(* computed rather than assumed.                                           *)
(***************************************************************************)
EXTENDS Integers, Sequences, FiniteSets, TLC

VARIABLES terms, cache, officers, members, last,
          courseInstances, exams, permissions, submitted, compared

\* the tables and the cache of base/models.py, and the record of the last
\* call to it
baseVars == <<terms, cache, officers, members, last>>

\* the tables exams/forms.py reads and writes, and the record of the last
\* form submitted
examVars == <<courseInstances, exams, permissions, submitted>>

\* the record of the last comparison of a Course (courses/models.py)
courseVars == <<compared>>

vars == <<terms, cache, officers, members, last,
          courseInstances, exams, permissions, submitted, compared>>

---------------------------------------------------------------------------
(* Bounds *)

MaxYear == 1
MaxTerms == 2
MaxOfficers == 2
MaxExams == 2
MaxCourseInstances == 1
MaxNumberLen == 3

---------------------------------------------------------------------------
(* Term: constants, fields and the objects handed to Term.save *)

UNKNOWN == "un"
WINTER == "wi"
SPRING == "sp"
SUMMER == "su"
FALL == "fa"

TERM_CHOICES == {UNKNOWN, WINTER, SPRING, SUMMER, FALL}

TERM_MAPPING == (UNKNOWN :> 0) @@ (WINTER :> 1) @@ (SPRING :> 2) @@
                (SUMMER :> 3) @@ (FALL :> 4)

\* id of a Term object that has not been given a primary key (id is None)
NoId == -1

Years == 0..MaxYear

term_as_int(self) == TERM_MAPPING[self.term]

\* a slip in the primary key: the year is not shifted by a full digit
CalculatePkYearTimesFour(self) == self.year * 4 + term_as_int(self)

_calculate_pk(self) == self.year * 10 + term_as_int(self)

\* the primary keys a Term object can carry
TermIds == {y * 10 + k : y \in Years, k \in 0..4}

\* the Term objects a caller can hand to save: fresh ones (no id) and ones
\* carrying an id, with any term, year and current flag
TermObjects == [id : {NoId} \cup TermIds, term : TERM_CHOICES,
                year : Years, current : BOOLEAN]

\* the Term objects saved where officers are kept as well: the fall terms of
\* the years 0 and 1 and the unknown term of year 0, again with or without
\* an id, the id being that of one of these terms
OfficerTermYears == {0, 1}

OfficerTermObjects ==
    [id : {NoId, TERM_MAPPING[UNKNOWN]}
            \cup {y * 10 + TERM_MAPPING[FALL] : y \in OfficerTermYears},
     term : {FALL}, year : OfficerTermYears, current : BOOLEAN]
    \cup
    [id : {NoId, TERM_MAPPING[UNKNOWN]}
            \cup {y * 10 + TERM_MAPPING[FALL] : y \in OfficerTermYears},
     term : {UNKNOWN}, year : {0}, current : BOOLEAN]

\* the condition of the ValueError in Term.save
IdMismatch(self) ==
    /\ self.id # NoId
    /\ \/ self.year # self.id \div 10
       \/ term_as_int(self) # self.id % 10

---------------------------------------------------------------------------
(* Users and officer positions (rows of the auth and OfficerPosition       *)
(* tables; they are data the operations below read)                        *)

Users == {"u1", "u2"}

\* OfficerPosition rows: long_name, executive, auxiliary
President == [long_name |-> <<"President">>, executive |-> TRUE,
              auxiliary |-> FALSE]
Historian == [long_name |-> <<"Historian">>, executive |-> FALSE,
              auxiliary |-> FALSE]
Advisor == [long_name |-> <<"Advisor">>, executive |-> FALSE,
            auxiliary |-> TRUE]
Emeritus == [long_name |-> <<"Emeritus">>, executive |-> TRUE,
             auxiliary |-> TRUE]

\* the positions officers are given
OfficerPositions == {President, Historian}

\* every combination of the executive and auxiliary fields
AllPositions == {President, Historian, Advisor, Emeritus}

\* 'Current {}'.format(group_name)
CurrentName(group_name) == <<"Current">> \o group_name

\* name__contains='Current'
ContainsCurrent(name) == \E i \in 1..Len(name) : name[i] = "Current"

Range(s) == {s[i] : i \in 1..Len(s)}

\* a slip in the list of names: the Officer group is left out for executive
\* positions, and taken for Executive
GroupNamesExecutiveNotOfficer(position) ==
    <<position.long_name>>
      \o (IF ~position.auxiliary /\ ~position.executive
          THEN << <<"Officer">> >> ELSE <<>>)
      \o (IF position.executive THEN << <<"Executive">> >> ELSE <<>>)

\* the list group_names of get_corresponding_groups
GroupNames(position) ==
    <<position.long_name>>
      \o (IF ~position.auxiliary THEN << <<"Officer">> >> ELSE <<>>)
      \o (IF position.executive THEN << <<"Executive">> >> ELSE <<>>)

RECURSIVE GroupsFor(_, _)
\* the loop of get_corresponding_groups over group_names
GroupsFor(group_names, is_current_term) ==
    IF group_names = <<>> THEN <<>>
    ELSE (<<Head(group_names)>>
            \o (IF is_current_term THEN <<CurrentName(Head(group_names))>>
                ELSE <<>>))
         \o GroupsFor(Tail(group_names), is_current_term)

\* OfficerPosition.get_corresponding_groups; term is <<>> (None) or <<t>>
\* for a Term object t.  Returns the list of groups, by name.
get_corresponding_groups(position, term) ==
    LET is_current_term == IF term # <<>> THEN term[1].current ELSE FALSE
    IN  GroupsFor(GroupNames(position), is_current_term)

\* the Term row an Officer's term foreign key points to, in the table tbl
TermOf(tbl, officer) == CHOOSE t \in tbl : t.id = officer.term

\* the groups of one Officer record, read against the Term table tbl
OfficerGroups(tbl, officer) ==
    Range(get_corresponding_groups(officer.position, <<TermOf(tbl, officer)>>))

---------------------------------------------------------------------------
(* The record of the last call: which operation, how it ended, and what it *)
(* was called with or returned                                             *)

\* op      the operation called
\* result  how it ended ("ValueError" when it raised)
\* idset, mismatch, unknown0
\*         for Term.save, of the object saved: its id was set; its id was
\*         set and did not match its year and term; it was the unknown
\*         term of year 0
\* officer for Officer.save and Officer.delete, <<the Officer>>
\* ret     for get_current_term, <<>> (None) or <<the Term returned>>
Called(op, result, flags, officer, ret) ==
    [op |-> op, result |-> result, idset |-> flags[1], mismatch |-> flags[2],
     unknown0 |-> flags[3], officer |-> officer, ret |-> ret]

NoFlags == <<FALSE, FALSE, FALSE>>

IsUnknownZero(self) == self.term = UNKNOWN /\ self.year = 0

TermFlags(self) == <<self.id # NoId, IdMismatch(self), IsUnknownZero(self)>>

---------------------------------------------------------------------------
(* Exam forms: the data they read and the record of the last submission    *)

Departments == {"CS"}

CourseNumbers == {"61A", "999"}

\* the rows of the Course table, as (department, number)
Courses == {<<"CS", "61A">>}

Instructors == {"i1", "i2"}

\* Exam.EXAM_NUMBER_CHOICES, the first being the "Unknown" choice that
\* UploadForm removes
EXAM_NUMBER_CHOICES == <<"un", "mt1">>

ExamTypes == {"exam", "soln"}

\* an instructor's InstructorPermission: no record, or a record whose
\* permission_allowed is True, False or null
PermissionValues == {"no record", "True", "False", "None"}

\* form      the form submitted
\* found     the department and course number submitted name a Course
\* refused   some instructor submitted has an InstructorPermission record
\*           whose permission_allowed is not true
\* matches   the course instance set, exam number and exam type submitted
\*           are those of another stored Exam
\* error     the message of the ValidationError raised, "" if none
\* fields    the fields given an entry in self._errors
\* stored    the pk of the Exam saved, 0 if none
Submitted(form, flags, error, fields, stored) ==
    [form |-> form, found |-> flags[1], refused |-> flags[2],
     matches |-> flags[3], error |-> error, fields |-> fields,
     stored |-> stored]

NoSubmission == Submitted("", NoFlags, "", {}, 0)

\* the InstructorPermission tables the forms are run against: the first
\* instructor with any permission, the second without a record
PermissionTables ==
    {p \in [Instructors -> PermissionValues] : p["i2"] = "no record"}

---------------------------------------------------------------------------
(* Course: the rich comparisons.  A string is the sequence of its          *)
(* characters, ordered as Python orders strings, by character code         *)

\* the characters course numbers and abbreviations are written with, and
\* their codes
Ord == ("-" :> 45) @@ ("1" :> 49) @@ ("2" :> 50) @@ ("A" :> 65)
         @@ ("C" :> 67) @@ ("E" :> 69) @@ ("S" :> 83)

\* string.letters, as far as these characters go
letters == {"A", "C", "E", "S"}

DigitValue == ("1" :> 1) @@ ("2" :> 2)

RECURSIVE StrLess(_, _)
\* s < t for two strings
StrLess(s, t) ==
    IF t = <<>> THEN FALSE
    ELSE IF s = <<>> THEN TRUE
    ELSE IF Ord[Head(s)] # Ord[Head(t)] THEN Ord[Head(s)] < Ord[Head(t)]
    ELSE StrLess(Tail(s), Tail(t))

RECURSIVE lstrip(_)
\* s.lstrip(string.letters)
lstrip(s) ==
    IF s # <<>> /\ Head(s) \in letters THEN lstrip(Tail(s)) ELSE s

RECURSIVE rstrip(_)
\* s.rstrip(string.letters)
rstrip(s) ==
    IF s # <<>> /\ s[Len(s)] \in letters
    THEN rstrip(SubSeq(s, 1, Len(s) - 1)) ELSE s

\* s.strip(string.letters)
strip(s) == rstrip(lstrip(s))

\* '-' in s
HasHyphen(s) == \E i \in 1..Len(s) : s[i] = "-"

\* s.split('-', 1), for a string with a hyphen: the parts before and after
\* the first hyphen
split(s) ==
    LET i == CHOOSE k \in 1..Len(s) :
                 s[k] = "-" /\ \A j \in 1..(k - 1) : s[j] # "-"
    IN  <<SubSeq(s, 1, i - 1), SubSeq(s, i + 1, Len(s))>>

\* a string of digits only, and at least one
IsDigits(s) == s # <<>> /\ \A i \in 1..Len(s) : s[i] \in DOMAIN DigitValue

RECURSIVE DigitsValue(_)
DigitsValue(s) ==
    IF s = <<>> THEN 0
    ELSE 10 * DigitsValue(SubSeq(s, 1, Len(s) - 1)) + DigitValue[s[Len(s)]]

\* int(s) raises no ValueError: digits, after a minus sign or not
IsInt(s) == IsDigits(s) \/ (s # <<>> /\ Head(s) = "-" /\ IsDigits(Tail(s)))

\* int(s)
int(s) == IF Head(s) = "-" THEN 0 - DigitsValue(Tail(s)) ELSE DigitsValue(s)

\* the number before its first hyphen, the whole number if it has none
BeforeHyphen(number) == IF HasHyphen(number) THEN split(number)[1] ELSE number

\* the course numbers __lt__ reads without a ValueError: an integer is left
\* when the letters are stripped from the part before the hyphen, and what
\* follows the hyphen is an integer
Parses(number) ==
    /\ IsInt(strip(BeforeHyphen(number)))
    /\ HasHyphen(number) => IsInt(split(number)[2])

\* the Department rows, id and abbreviation: the abbreviation is not unique
CS == [id |-> 1, abbreviation |-> <<"C", "S">>]
EE == [id |-> 2, abbreviation |-> <<"E", "E">>]
CSAgain == [id |-> 3, abbreviation |-> <<"C", "S">>]

\* the strings of at most n characters out of chars
StringsUpTo(chars, n) == UNION {[1..k -> chars] : k \in 1..n}

\* the characters of a course number
NumberChars == {"-", "1", "2", "A"}

\* the course numbers of at most n characters that parse
ParsedNumbers(n) == {number \in StringsUpTo(NumberChars, n) : Parses(number)}

\* the Course objects compared: the first department has every number of at
\* most MaxNumberLen characters, the other two the short ones
CourseObjects ==
    [class : {"Course"}, department : {CS},
     number : ParsedNumbers(MaxNumberLen)]
    \cup [class : {"Course"}, department : {EE, CSAgain},
          number : ParsedNumbers(MaxNumberLen - 2)]

\* an object that is not a Course
NotACourse == [class |-> "int", department |-> [id |-> 0, abbreviation |-> <<>>],
               number |-> <<>>]

\* isinstance(other, Course)
IsCourse(other) == other.class = "Course"

\* a slip in the comparison: the numbers without their leading letters are
\* not compared
Course__lt__NoPost(self, other) ==
    IF ~IsCourse(other) THEN FALSE
    ELSE IF StrLess(self.department.abbreviation,
                    other.department.abbreviation) THEN TRUE
    ELSE IF StrLess(other.department.abbreviation,
                    self.department.abbreviation) THEN FALSE
    ELSE
      LET our_hyph == IF HasHyphen(self.number)
                      THEN int(split(self.number)[2]) ELSE 0
          oth_hyph == IF HasHyphen(other.number)
                      THEN int(split(other.number)[2]) ELSE 0
          our_number == BeforeHyphen(self.number)
          oth_number == BeforeHyphen(other.number)
          our_int == int(strip(our_number))
          oth_int == int(strip(oth_number))
      IN  IF our_int < oth_int THEN TRUE
          ELSE IF our_int > oth_int THEN FALSE
          ELSE IF StrLess(our_number, oth_number) THEN TRUE
          ELSE IF StrLess(oth_number, our_number) THEN FALSE
          ELSE our_hyph < oth_hyph

\* Course.__lt__
Course__lt__(self, other) ==
    IF ~IsCourse(other) THEN FALSE
    ELSE IF StrLess(self.department.abbreviation,
                    other.department.abbreviation) THEN TRUE
    ELSE IF StrLess(other.department.abbreviation,
                    self.department.abbreviation) THEN FALSE
    ELSE
      LET our_hyph == IF HasHyphen(self.number)
                      THEN int(split(self.number)[2]) ELSE 0
          oth_hyph == IF HasHyphen(other.number)
                      THEN int(split(other.number)[2]) ELSE 0
          our_number == BeforeHyphen(self.number)
          oth_number == BeforeHyphen(other.number)
          our_int == int(strip(our_number))
          oth_int == int(strip(oth_number))
          our_post == lstrip(our_number)
          oth_post == lstrip(oth_number)
      IN  IF our_int < oth_int THEN TRUE
          ELSE IF our_int > oth_int THEN FALSE
          ELSE IF StrLess(our_post, oth_post) THEN TRUE
          ELSE IF StrLess(oth_post, our_post) THEN FALSE
          ELSE IF StrLess(our_number, oth_number) THEN TRUE
          ELSE IF StrLess(oth_number, our_number) THEN FALSE
          ELSE our_hyph < oth_hyph

\* Course.__le__
Course__le__(self, other) ==
    IF ~IsCourse(other) THEN FALSE ELSE ~Course__lt__(other, self)

\* Course.__eq__
Course__eq__(self, other) ==
    IF ~IsCourse(other) THEN FALSE
    ELSE /\ self.number = other.number
         /\ self.department.id = other.department.id

\* Course.__gt__
Course__gt__(self, other) ==
    IF ~IsCourse(other) THEN FALSE ELSE Course__lt__(other, self)

\* Course.__ge__
Course__ge__(self, other) ==
    IF ~IsCourse(other) THEN FALSE ELSE ~Course__lt__(self, other)

\* the record of a comparison: the two objects and what self < other,
\* self <= other, self > other, self >= other and self == other returned
Compared(self, other) ==
    [self |-> self, other |-> other, called |-> TRUE,
     lt |-> Course__lt__(self, other), le |-> Course__le__(self, other),
     gt |-> Course__gt__(self, other), ge |-> Course__ge__(self, other),
     eq |-> Course__eq__(self, other)]

\* two objects not compared yet
Operands(self, other) ==
    [self |-> self, other |-> other, called |-> FALSE,
     lt |-> FALSE, le |-> FALSE, gt |-> FALSE, ge |-> FALSE, eq |-> FALSE]

NoComparison == Operands(NotACourse, NotACourse)

InitBase ==
    /\ terms = {}
    /\ cache = <<>>
    /\ officers = {}
    /\ members = {}
    /\ last = Called("init", "ok", NoFlags, <<>>, <<>>)

Init ==
    /\ InitBase
    /\ courseInstances = {}
    /\ exams = {}
    /\ permissions = [i \in Instructors |-> "no record"]
    /\ submitted = NoSubmission
    /\ compared = NoComparison

---------------------------------------------------------------------------
(* Term.save *)

\* a slip in the update: the other current terms are left as they are
ClearOtherCurrentNothing(tbl, pk) == tbl

\* Term.objects.filter(current=True).exclude(id=pk).update(current=False)
ClearOtherCurrent(tbl, pk) ==
    {IF t.current /\ t.id # pk THEN [t EXCEPT !.current = FALSE] ELSE t
       : t \in tbl}

\* super(Term, self).save(): insert, or update the row with this primary key
StoreTerm(tbl, row) == {t \in tbl : t.id # row.id} \cup {row}

\* Group.objects.filter(name__contains='Current'), each with
\* group.user_set.clear().  A group that has members exists, so the rows of
\* the Group table need not be kept: clearing a group without members
\* changes nothing.
ClearCurrentGroups(mem) == {m \in mem : ~ContainsCurrent(m[2])}

\* the officers of Officer.objects.filter(term=self)
OfficersOfTerm(row) == {o \in officers : o.term = row.id}

\* Term.update_term_officer_groups, on the memberships mem; row is the Term
\* as just stored
update_term_officer_groups(mem, row) ==
    IF row.current
    THEN ClearCurrentGroups(mem)
           \cup UNION {{<<o.user, g>> :
                          g \in Range(get_corresponding_groups(o.position,
                                                               <<row>>))}
                       : o \in OfficersOfTerm(row)}
    ELSE mem

\* cache.set('current_term', self) when self.current
UpdateCache(c, row) ==
    IF row.current THEN ("current_term" :> row) @@ c ELSE c

\* Term.save: the early return for the unknown term of year 0
TermSaveSkipped(self) ==
    /\ IsUnknownZero(self)
    /\ last' = Called("Term.save", "returned", TermFlags(self), <<>>, <<>>)
    /\ UNCHANGED <<terms, cache, officers, members>>
    /\ UNCHANGED <<examVars, courseVars>>

\* a slip in the order: the check comes after the id is set, so it never
\* fails and the row is stored under the recomputed key
TermSaveChecksAfterStore(self) ==
    /\ ~IsUnknownZero(self)
    /\ IdMismatch(self)
    /\ LET row == [self EXCEPT !.id = _calculate_pk(self)]
       IN  /\ \/ \E t \in terms : t.id = row.id
              \/ Cardinality(terms) < MaxTerms
           /\ terms' = {t \in terms : t.id # row.id} \cup {row}
           /\ last' = Called("Term.save", "saved", TermFlags(self), <<>>, <<>>)
    /\ UNCHANGED <<cache, officers, members>>
    /\ UNCHANGED <<examVars, courseVars>>

\* Term.save: the ValueError for an id that does not match term and year
TermSaveRaises(self) ==
    /\ ~IsUnknownZero(self)
    /\ IdMismatch(self)
    /\ last' = Called("Term.save", "ValueError", TermFlags(self), <<>>, <<>>)
    /\ UNCHANGED <<terms, cache, officers, members>>
    /\ UNCHANGED <<examVars, courseVars>>

\* Term.save: the id is set and the row stored inside transaction.atomic()
TermSaveStored(self) ==
    /\ ~IsUnknownZero(self)
    /\ ~IdMismatch(self)
    /\ LET row == [self EXCEPT !.id = _calculate_pk(self)]
           tbl == IF self.current THEN ClearOtherCurrent(terms, row.id)
                  ELSE terms
       IN  /\ \/ \E t \in terms : t.id = row.id
              \/ Cardinality(terms) < MaxTerms
           /\ terms' = StoreTerm(tbl, row)
           /\ members' = update_term_officer_groups(members, row)
           /\ cache' = UpdateCache(cache, row)
           /\ last' = Called("Term.save", "saved", TermFlags(self), <<>>, <<>>)
    /\ UNCHANGED officers
    /\ UNCHANGED <<examVars, courseVars>>

TermSave(self) ==
    \/ TermSaveSkipped(self)
    \/ TermSaveRaises(self)
    \/ TermSaveStored(self)

---------------------------------------------------------------------------
(* TermManager.get_current_term, and the expiry of a cache entry *)

\* self.get(current=True); <<>> when Term.DoesNotExist
GetCurrent(tbl) ==
    IF \E t \in tbl : t.current
    THEN <<CHOOSE t \in tbl : t.current>>
    ELSE <<>>

get_current_term ==
    LET cached == IF "current_term" \in DOMAIN cache
                  THEN <<cache["current_term"]>> ELSE <<>>
        term == IF cached = <<>> THEN GetCurrent(terms) ELSE cached
    IN  /\ cache' = IF cached = <<>> /\ term # <<>>
                    THEN ("current_term" :> term[1]) @@ cache
                    ELSE cache
        /\ last' = Called("get_current_term", "ok", NoFlags, <<>>, term)
        /\ UNCHANGED <<terms, officers, members>>
        /\ UNCHANGED <<examVars, courseVars>>

\* the cache backend drops the entry (timeout or eviction); cache.get then
\* returns None
CacheExpire ==
    /\ "current_term" \in DOMAIN cache
    /\ cache' = <<>>
    /\ last' = Called("cache.expire", "ok", NoFlags, <<>>, <<>>)
    /\ UNCHANGED <<terms, officers, members>>
    /\ UNCHANGED <<examVars, courseVars>>

---------------------------------------------------------------------------
(* Officer: post_save and post_delete *)

Officers == [user : Users, position : OfficerPositions, term : TermIds]

\* a slip in the call: the term is not passed on, so no "Current" group is
\* among the groups
AddUserWithoutTerm(mem, officer) ==
    mem \cup {<<officer.user, g>> :
                g \in Range(get_corresponding_groups(officer.position, <<>>))}

\* Officer._add_user_to_officer_groups
_add_user_to_officer_groups(mem, officer) ==
    mem \cup {<<officer.user, g>> : g \in OfficerGroups(terms, officer)}

\* the set "groups" of _remove_user_from_officer_groups: the groups of the
\* Officer records the user has in the table remaining
StillNeededGroups(remaining, user) ==
    UNION {OfficerGroups(terms, o) : o \in {x \in remaining : x.user = user}}

\* a slip in the removal: every group of the position is removed, the ones
\* still needed too
RemoveUserFromAllGroups(mem, remaining, officer) ==
    mem \ {<<officer.user, g>> : g \in OfficerGroups(terms, officer)}

\* Officer._remove_user_from_officer_groups, after the row is deleted
_remove_user_from_officer_groups(mem, remaining, officer) ==
    LET stale_groups == OfficerGroups(terms, officer)
                          \ StillNeededGroups(remaining, officer.user)
    IN  mem \ {<<officer.user, g>> : g \in stale_groups}

\* saving an Officer (a new one, or an existing one again), then
\* officer_post_save
OfficerSave(officer) ==
    /\ \E t \in terms : t.id = officer.term
    /\ officer \in officers \/ Cardinality(officers) < MaxOfficers
    /\ officers' = officers \cup {officer}
    /\ members' = _add_user_to_officer_groups(members, officer)
    /\ last' = Called("Officer.save", "saved", NoFlags, <<officer>>, <<>>)
    /\ UNCHANGED <<terms, cache>>
    /\ UNCHANGED <<examVars, courseVars>>

\* deleting an Officer, then officer_post_delete
OfficerDelete(officer) ==
    /\ officer \in officers
    /\ officers' = officers \ {officer}
    /\ members' = _remove_user_from_officer_groups(members, officers', officer)
    /\ last' = Called("Officer.delete", "deleted", NoFlags, <<officer>>, <<>>)
    /\ UNCHANGED <<terms, cache>>
    /\ UNCHANGED <<examVars, courseVars>>

---------------------------------------------------------------------------
(* ExamForm, UploadForm and EditForm: one submission is the form's clean    *)
(* followed, if it raised nothing, by its save                              *)

\* the cleaned data of a submission; term is the id of a stored Term
FormData == [department : Departments, course_number : CourseNumbers,
             instructors : SUBSET Instructors, term : {t.id : t \in terms},
             exam_number : Range(EXAM_NUMBER_CHOICES), exam_type : ExamTypes]

\* UploadForm takes exam_number from EXAM_NUMBER_CHOICES[1:]
UploadNumbers == Range(Tail(EXAM_NUMBER_CHOICES))

\* get_object_or_none(Course, department=..., number=...) finds a course
CourseExists(data) == <<data.department, data.course_number>> \in Courses

\* a slip in the test: only a permission_allowed that is False refuses, as
\* in the test of UploadForm.save
PermissionRefusedOnlyIfFalse(instructor) == permissions[instructor] = "False"

\* the instructor's permission record exists and its permission_allowed is
\* not true
PermissionRefused(instructor) ==
    /\ permissions[instructor] # "no record"
    /\ permissions[instructor] # "True"

\* the course instances of the term and course with exactly the instructors
\* given (the annotate / filter query)
MatchingInstances(data) ==
    {ci \in courseInstances :
        /\ ci.term = data.term
        /\ ci.course = <<data.department, data.course_number>>
        /\ Cardinality(ci.instructors) = Cardinality(data.instructors)
        /\ \A i \in data.instructors : i \in ci.instructors}

\* the row CourseInstance.objects.create makes; ids are handed out in order
\* and no course instance is ever deleted
NewCourseInstance(data) ==
    [id |-> Cardinality(courseInstances) + 1, term |-> data.term,
     course |-> <<data.department, data.course_number>>,
     instructors |-> data.instructors]

\* ExamForm.set_course_instance: the error raised ("" if none), the fields
\* given errors, the course instance set and the CourseInstance table after
set_course_instance(data) ==
    IF ~CourseExists(data)
    THEN [error |-> "Invalid course",
          fields |-> {"department", "course_number"},
          course_instance |-> 0, table |-> courseInstances]
    ELSE IF data.instructors = {}
    THEN [error |-> "Please fill out all fields.", fields |-> {},
          course_instance |-> 0, table |-> courseInstances]
    ELSE IF \E i \in data.instructors : PermissionRefused(i)
    THEN [error |-> "Ineligible exam", fields |-> {"instructors"},
          course_instance |-> 0, table |-> courseInstances]
    ELSE IF MatchingInstances(data) # {}
    THEN [error |-> "", fields |-> {},
          course_instance |-> (CHOOSE ci \in MatchingInstances(data) : TRUE).id,
          table |-> courseInstances]
    ELSE [error |-> "", fields |-> {},
          course_instance |-> NewCourseInstance(data).id,
          table |-> courseInstances \cup {NewCourseInstance(data)}]

\* the duplicates query of UploadForm.clean
UploadDuplicates(course_instance, data) ==
    {e \in exams : /\ e.course_instance = course_instance
                   /\ e.exam_number = data.exam_number
                   /\ e.exam_type = data.exam_type}

\* a slip in the query: filter(pk=...) for exclude(pk=...)
EditDuplicatesOnlyItself(course_instance, data, pk) ==
    {e \in UploadDuplicates(course_instance, data) : e.pk = pk}

\* the duplicates query of EditForm.clean, which excludes the exam edited
EditDuplicates(course_instance, data, pk) ==
    {e \in UploadDuplicates(course_instance, data) : e.pk # pk}

\* the loop of UploadForm.save: some instructor's permission_allowed is False
Blacklisted(data) == \E i \in data.instructors : permissions[i] = "False"

\* what is recorded of a submission: pk is the pk of the Exam edited, 0 for
\* an upload
FormFlags(data, sci, pk) ==
    << <<data.department, data.course_number>> \in Courses,
       \E i \in data.instructors : permissions[i] \in {"False", "None"},
       \E e \in exams : /\ e.pk # pk
                        /\ e.course_instance = sci.course_instance
                        /\ e.exam_number = data.exam_number
                        /\ e.exam_type = data.exam_type >>

\* a form that clean rejected: nothing is saved
Rejected(form, pk, data, sci, error) ==
    /\ exams' = exams
    /\ courseInstances' = sci.table
    /\ submitted' = Submitted(form, FormFlags(data, sci, pk), error,
                              sci.fields, 0)

\* UploadForm: clean, then save of a new Exam
UploadFormSubmit(data) ==
    /\ data.exam_number \in UploadNumbers
    /\ LET sci == set_course_instance(data)
           pk == Cardinality(exams) + 1
       IN  /\ Cardinality(sci.table) <= MaxCourseInstances
           /\ IF sci.error # ""
              THEN Rejected("UploadForm", 0, data, sci, sci.error)
              ELSE IF UploadDuplicates(sci.course_instance, data) # {}
              THEN Rejected("UploadForm", 0, data, sci,
                            "This exam already exists in the database.")
              ELSE /\ Cardinality(exams) < MaxExams
                   /\ exams' = exams \cup
                         {[pk |-> pk, course_instance |-> sci.course_instance,
                           exam_number |-> data.exam_number,
                           exam_type |-> data.exam_type,
                           blacklisted |-> Blacklisted(data)]}
                   /\ courseInstances' = sci.table
                   /\ submitted' = Submitted("UploadForm",
                                             FormFlags(data, sci, 0),
                                             "", {}, pk)
    /\ UNCHANGED permissions
    /\ UNCHANGED <<baseVars, courseVars>>

\* EditForm on the stored Exam instance: clean, then save of that Exam
EditFormSubmit(instance, data) ==
    /\ instance \in exams
    /\ LET sci == set_course_instance(data)
       IN  /\ Cardinality(sci.table) <= MaxCourseInstances
           /\ IF sci.error # ""
              THEN Rejected("EditForm", instance.pk, data, sci, sci.error)
              ELSE IF EditDuplicates(sci.course_instance, data,
                                     instance.pk) # {}
              THEN Rejected("EditForm", instance.pk, data, sci,
                            "This exam already exists in the database. "
                              \o "Please double check and delete as necessary.")
              ELSE /\ exams' = (exams \ {instance}) \cup
                         {[instance EXCEPT
                             !.course_instance = sci.course_instance,
                             !.exam_number = data.exam_number,
                             !.exam_type = data.exam_type]}
                   /\ courseInstances' = sci.table
                   /\ submitted' = Submitted("EditForm",
                                             FormFlags(data, sci, instance.pk),
                                             "", {}, instance.pk)
    /\ UNCHANGED permissions
    /\ UNCHANGED <<baseVars, courseVars>>

---------------------------------------------------------------------------

(* Terms and officers: Term.save with the officer signal handlers *)

Next ==
    \/ \E self \in OfficerTermObjects : TermSave(self)
    \/ \E officer \in Officers : OfficerSave(officer)
    \/ \E officer \in Officers : OfficerDelete(officer)

Spec == Init /\ [][Next]_vars

(* Terms and the cache: Term.save of every kind of term, with              *)
(* get_current_term                                                        *)

NextTerms ==
    \/ \E self \in TermObjects : TermSave(self)
    \/ get_current_term
    \/ CacheExpire

SpecTerms == Init /\ [][NextTerms]_vars

(* Exams: the forms, over stored terms and any permission records          *)

\* the Term the exam forms choose: the fall term of year 1, saved as the
\* current term
ExamTerm == [id |-> 14, term |-> FALL, year |-> 1, current |-> TRUE]

InitExams ==
    /\ terms = {ExamTerm}
    /\ cache = ("current_term" :> ExamTerm)
    /\ officers = {}
    /\ members = {}
    /\ last = Called("Term.save", "saved", TermFlags(ExamTerm), <<>>, <<>>)
    /\ courseInstances = {}
    /\ exams = {}
    /\ permissions \in PermissionTables
    /\ submitted = NoSubmission
    /\ compared = NoComparison

NextExams ==
    \/ \E data \in FormData : UploadFormSubmit(data)
    \/ \E instance \in exams : \E data \in FormData :
          EditFormSubmit(instance, data)

SpecExams == InitExams /\ [][NextExams]_vars

(* Courses: a Course compared with a Course, or with something else         *)

\* the operands: a Course, and a Course or something else
InitCourses ==
    /\ InitBase
    /\ courseInstances = {}
    /\ exams = {}
    /\ permissions = [i \in Instructors |-> "no record"]
    /\ submitted = NoSubmission
    /\ compared \in {Operands(self, other) :
                        self \in CourseObjects,
                        other \in CourseObjects \cup {NotACourse}}

\* self < other, self <= other, self > other, self >= other, self == other
Compare ==
    /\ ~compared.called
    /\ compared' = Compared(compared.self, compared.other)
    /\ UNCHANGED <<baseVars, examVars>>

NextCourses == Compare

SpecCourses == InitCourses /\ [][NextCourses]_vars

(* Officers alone: Officer rows created, given another position and       *)
(* deleted, the Term table staying as it is                                *)

\* the Term rows officers are attached to: last fall's and the current one
PastTerm == [id |-> 4, term |-> FALL, year |-> 0, current |-> FALSE]

OfficerTerms == {PastTerm, ExamTerm}

\* the Officer objects of one user, with a position of any kind, auxiliary
\* ones too, in either term
OfficersOfOneUser ==
    [user : {"u1"}, position : AllPositions,
     term : {t.id : t \in OfficerTerms}]

InitOfficers ==
    /\ terms = OfficerTerms
    /\ cache = ("current_term" :> ExamTerm)
    /\ officers = {}
    /\ members = {}
    /\ last = Called("Term.save", "saved", TermFlags(ExamTerm), <<>>, <<>>)
    /\ courseInstances = {}
    /\ exams = {}
    /\ permissions = [i \in Instructors |-> "no record"]
    /\ submitted = NoSubmission
    /\ compared = NoComparison

\* an Officer created: save of a row that is not there, then
\* officer_post_save
OfficerCreate(officer) ==
    /\ officer \notin officers
    /\ OfficerSave(officer)

\* an existing Officer saved with another position: the row is updated in
\* place (unique_together refuses a second row of the same user, position
\* and term), then officer_post_save runs on the updated row
OfficerUpdate(officer, position) ==
    LET updated == [officer EXCEPT !.position = position]
    IN  /\ officer \in officers
        /\ position # officer.position
        /\ updated \notin officers
        /\ officers' = (officers \ {officer}) \cup {updated}
        /\ members' = _add_user_to_officer_groups(members, updated)
        /\ last' = Called("Officer.save", "updated", NoFlags, <<updated>>,
                          <<>>)
        /\ UNCHANGED <<terms, cache>>
        /\ UNCHANGED <<examVars, courseVars>>

NextOfficers ==
    \/ \E officer \in OfficersOfOneUser : OfficerCreate(officer)
    \/ \E officer \in OfficersOfOneUser :
           \E position \in AllPositions : OfficerUpdate(officer, position)
    \/ \E officer \in OfficersOfOneUser : OfficerDelete(officer)

SpecOfficers == InitOfficers /\ [][NextOfficers]_vars

---------------------------------------------------------------------------
(* Properties of Term.save and get_current_term                            *)

\* C1: after any sequence of Term.save calls at most one stored Term has
\* current = TRUE.
C1_AtMostOneCurrent == Cardinality({t \in terms : t.current}) <= 1

\* a current term was saved while another term was stored, which is not
\* current now
C1_Witness ==
    /\ last.op = "Term.save" /\ last.result = "saved"
    /\ \E a \in terms : \E b \in terms :
          /\ a.current /\ ~b.current
          /\ "current_term" \in DOMAIN cache
          /\ cache["current_term"].id = a.id

\* C2: get_current_term returns the stored term whose current flag is TRUE,
\* or None if no stored term is current.
C2_ReturnsStoredCurrentTerm ==
    last.op = "get_current_term" =>
        IF \E t \in terms : t.current
        THEN /\ last.ret # <<>>
             /\ \E t \in terms : t.current /\ t = last.ret[1]
        ELSE last.ret = <<>>

\* C3: every stored Term has id = year * 10 + (unknown 0, winter 1, spring 2,
\* summer 3, fall 4), and two stored terms with different (term, year) have
\* different ids.
C3_IdFromTermAndYear ==
    /\ \A t \in terms :
          t.id = t.year * 10 + (CASE t.term = "un" -> 0
                                  [] t.term = "wi" -> 1
                                  [] t.term = "sp" -> 2
                                  [] t.term = "su" -> 3
                                  [] t.term = "fa" -> 4)
    /\ \A a \in terms : \A b \in terms :
          (a.term # b.term \/ a.year # b.year) => a.id # b.id

\* two terms of different years are stored, one of them a fall term of a
\* year after 0
C3_Witness ==
    /\ last.op = "Term.save" /\ last.result = "saved"
    /\ \E a \in terms : \E b \in terms :
          a.year # b.year /\ a.term = FALL /\ a.year > 0

\* C4 as stated: Term.save on a term whose id is set and does not match its
\* year and term raises ValueError and leaves terms, current flags, the cache
\* and the group memberships unchanged.
C4_MismatchRaisesValueError ==
    [][(last'.op = "Term.save" /\ last'.mismatch)
         => /\ last'.result = "ValueError"
            /\ UNCHANGED <<terms, cache, officers, members>>]_vars

\* C4 as amended: Term.save on a term whose id is set and does not match its
\* year and term raises ValueError, unless it is the unknown term of year 0,
\* for which save returns without raising; either way terms, current flags,
\* the cache and the group memberships are unchanged.
C4_MismatchRaisesUnlessUnknownZero ==
    [][(last'.op = "Term.save" /\ last'.mismatch)
         => /\ last'.result = IF last'.unknown0 THEN "returned"
                              ELSE "ValueError"
            /\ UNCHANGED <<terms, cache, officers, members>>]_vars

\* a save has raised ValueError while terms, a cached current term, officers
\* and memberships were there to be changed
C4_Witness ==
    /\ last.op = "Term.save" /\ last.mismatch /\ last.result = "ValueError"
    /\ terms # {} /\ officers # {} /\ members # {}
    /\ "current_term" \in DOMAIN cache

---------------------------------------------------------------------------
(* Properties of the officer groups                                        *)

\* C5: a user is a member of 'Current <long_name>' exactly when the user has
\* an Officer record for that position in the stored term whose current flag
\* is TRUE.
C5_CurrentGroupIsCurrentOfficers ==
    \A u \in Users : \A p \in OfficerPositions :
        <<u, CurrentName(p.long_name)>> \in members
          <=> \E t \in terms :
                  /\ t.current
                  /\ [user |-> u, position |-> p, term |-> t.id] \in officers

\* the groups the claims name for a position and a Term row
ClaimedGroups(p, t) ==
    LET names == {p.long_name}
                   \cup (IF p.auxiliary = FALSE THEN {<<"Officer">>} ELSE {})
                   \cup (IF p.executive = TRUE THEN {<<"Executive">>} ELSE {})
    IN  names \cup (IF t # <<>> /\ t[1].current
                    THEN {<<"Current">> \o n : n \in names} ELSE {})

\* C6: when an Officer is deleted, among the groups of its position and term
\* the user is removed from exactly those that belong to none of the user's
\* remaining Officer records; every other membership is kept.
C6_DeleteRemovesOnlyStaleGroups ==
    [][last'.op = "Officer.delete"
         => LET o == last'.officer[1]
                own == ClaimedGroups(o.position, <<TermOf(terms, o)>>)
                remaining == {r \in officers' : r.user = o.user}
                needed(g) == \E r \in remaining :
                                g \in ClaimedGroups(r.position,
                                                    <<TermOf(terms, r)>>)
            IN  /\ o \notin officers'
                /\ \A g \in own :
                      <<o.user, g>> \in members'
                        <=> (<<o.user, g>> \in members /\ needed(g))
                /\ \A m \in members \cup members' :
                      (m[1] # o.user \/ m[2] \notin own)
                        => (m \in members' <=> m \in members)]_vars

\* an Officer of the current term was deleted while the user has another
\* Officer record: the user has left a "Current" group and is still in
\* Officer
C6_Witness ==
    /\ last.op = "Officer.delete"
    /\ LET o == last.officer[1]
       IN  /\ \E r \in officers : r.user = o.user
           /\ \E t \in terms : t.id = o.term /\ t.current
           /\ <<o.user, <<"Officer">>>> \in members
           /\ <<o.user, <<"Current", "Officer">>>> \notin members
           /\ <<o.user, o.position.long_name>> \notin members

\* C7: after an Officer is saved its user is a member of every group of the
\* officer's position and term, and every other membership is unchanged.
C7_SaveAddsCorrespondingGroups ==
    [][last'.op = "Officer.save"
         => LET o == last'.officer[1]
                own == ClaimedGroups(o.position, <<TermOf(terms, o)>>)
            IN  /\ o \in officers'
                /\ \A g \in own : <<o.user, g>> \in members'
                /\ \A m \in members \cup members' :
                      (m[1] # o.user \/ m[2] \notin own)
                        => (m \in members' <=> m \in members)]_vars

\* an Officer of the current term was saved while another user had
\* memberships
C7_Witness ==
    /\ last.op = "Officer.save"
    /\ LET o == last.officer[1]
       IN  /\ \E t \in terms : t.id = o.term /\ t.current
           /\ <<o.user, CurrentName(o.position.long_name)>> \in members
           /\ \E m \in members : m[1] # o.user

\* C8: get_corresponding_groups returns exactly the group long_name, Officer
\* iff auxiliary is FALSE, Executive iff executive is TRUE, and 'Current
\* <name>' of each of these iff a term is given and it is current.
C8_CorrespondingGroups ==
    \A p \in AllPositions :
        \A t \in {<<>>} \cup {<<r>> : r \in terms} :
            Range(get_corresponding_groups(p, t)) = ClaimedGroups(p, t)

\* the groups of an Officer were computed with a current and with a not
\* current term stored
C8_Witness ==
    /\ last.op = "Officer.save"
    /\ \E a \in terms : \E b \in terms : a.current /\ ~b.current
    /\ \E m \in members : ContainsCurrent(m[2])

---------------------------------------------------------------------------
(* Properties of the exam forms                                            *)

\* C9: no two stored Exams have the same (course_instance, exam_number,
\* exam_type), and a submission whose triple is that of another stored Exam
\* fails validation and stores nothing.
C9_NoDuplicateExams ==
    [][/\ \A a \in exams' : \A b \in exams' :
            a # b => /\ a.pk # b.pk
                     /\ \/ a.course_instance # b.course_instance
                        \/ a.exam_number # b.exam_number
                        \/ a.exam_type # b.exam_type
       /\ submitted'.matches
            => /\ submitted'.error # ""
               /\ submitted'.stored = 0
               /\ exams' = exams]_vars

\* a submission with the triple of another stored Exam was rejected, with
\* two Exams stored
C9_Witness ==
    /\ submitted.form = "EditForm"
    /\ submitted.matches /\ submitted.error # ""
    /\ Cardinality(exams) = 2

\* C10 as stated: if any selected instructor has a permission record whose
\* permission_allowed is not true, validation fails with 'Ineligible exam'
\* and an error on the instructors field, and no Exam is stored; no stored
\* Exam names such an instructor.
C10_RefusedInstructorIsIneligible ==
    [][/\ (submitted'.form # "" /\ submitted'.refused)
            => /\ submitted'.error = "Ineligible exam"
               /\ "instructors" \in submitted'.fields
               /\ exams' = exams
       /\ \A e \in exams' : \A ci \in courseInstances' :
            ci.id = e.course_instance
              => \A i \in ci.instructors :
                    permissions[i] \notin {"False", "None"}]_vars

\* C10 as amended: if any selected instructor has a permission record whose
\* permission_allowed is not true, validation fails and no Exam is stored:
\* with 'Ineligible exam' and an error on the instructors field if the
\* department and course number name a course, with 'Invalid course'
\* otherwise; no stored Exam names such an instructor.
C10_RefusedInstructorFailsValidation ==
    [][/\ (submitted'.form # "" /\ submitted'.refused)
            => /\ IF submitted'.found
                  THEN /\ submitted'.error = "Ineligible exam"
                       /\ "instructors" \in submitted'.fields
                  ELSE submitted'.error = "Invalid course"
               /\ submitted'.stored = 0
               /\ exams' = exams
       /\ \A e \in exams' : \A ci \in courseInstances' :
            ci.id = e.course_instance
              => \A i \in ci.instructors :
                    permissions[i] \notin {"False", "None"}]_vars

\* an upload naming an existing course and a refusing instructor was found
\* ineligible, while an Exam of another instructor is stored
C10_Witness ==
    /\ submitted.form = "UploadForm"
    /\ submitted.found /\ submitted.refused
    /\ submitted.error = "Ineligible exam"
    /\ exams # {}

---------------------------------------------------------------------------
(* Course ordering *)

\* the keys of a Course with the number's third key read off the whole
\* number: abbreviation, integer part, the number without its leading
\* letters, the number before any hyphen, the integer after the hyphen
KeysOfNumber(c) ==
    <<c.department.abbreviation,
      int(strip(BeforeHyphen(c.number))),
      lstrip(c.number),
      BeforeHyphen(c.number),
      IF HasHyphen(c.number) THEN int(split(c.number)[2]) ELSE 0>>

\* the same keys with the third read off the part before the hyphen
KeysOfNumberBeforeHyphen(c) ==
    <<c.department.abbreviation,
      int(strip(BeforeHyphen(c.number))),
      lstrip(BeforeHyphen(c.number)),
      BeforeHyphen(c.number),
      IF HasHyphen(c.number) THEN int(split(c.number)[2]) ELSE 0>>

\* the keys at 2 and 5 are integers, the others strings
KeyLess(i, x, y) == IF i \in {2, 5} THEN x < y ELSE StrLess(x, y)

\* k comes before l lexicographically
LexLess(k, l) ==
    \E i \in 1..5 :
        /\ KeyLess(i, k[i], l[i])
        /\ \A j \in 1..(i - 1) : k[j] = l[j]

\* what the comparisons of self with other returned makes < a strict order
\* and <=, >, >= its derived comparisons; with a non-Course all are False
OrderLaws ==
    LET a == compared.self
        b == compared.other
    IN  IF IsCourse(b)
        THEN /\ (a = b => ~compared.lt)
             /\ ~(compared.lt /\ Course__lt__(b, a))
             /\ compared.lt =>
                   \A c \in CourseObjects :
                       Course__lt__(b, c) => Course__lt__(a, c)
             /\ compared.le = ~Course__lt__(b, a)
             /\ compared.gt = Course__lt__(b, a)
             /\ compared.ge = ~compared.lt
        ELSE /\ ~compared.lt /\ ~compared.le /\ ~compared.gt
             /\ ~compared.ge /\ ~compared.eq

\* C11 as stated: Course.__lt__ is the lexicographic comparison of department
\* abbreviation, integer part of the number, the number with leading letters
\* removed, the number before any hyphen and the integer after the hyphen;
\* it is a strict order, <=, > and >= derive from it, and every comparison
\* with a non-Course is False.
C11_LexicographicOnNumber ==
    compared.called =>
        /\ IsCourse(compared.other) =>
              compared.lt = LexLess(KeysOfNumber(compared.self),
                                    KeysOfNumber(compared.other))
        /\ OrderLaws

\* C11, amended: Course.__lt__ is the lexicographic comparison of department
\* abbreviation and then, all three taken from the part of the number before
\* its first hyphen, the integer part, that part with leading letters
\* removed and that part itself, and last the integer after the hyphen (0 if
\* none); it is a strict order, a <= b equals not (b < a), a > b equals
\* b < a, a >= b equals not (a < b), and compared with a non-Course <, <=,
\* >, >= and == are all False.
C11_LexicographicOnNumberBeforeHyphen ==
    compared.called =>
        /\ IsCourse(compared.other) =>
              compared.lt = LexLess(KeysOfNumberBeforeHyphen(compared.self),
                                    KeysOfNumberBeforeHyphen(compared.other))
        /\ OrderLaws

\* two courses of one department with the same integer part were compared,
\* one of them with a hyphen: self < other, decided by the parts before the
\* hyphen, although the whole number of self without its leading letters is
\* the greater string
C11_Witness ==
    /\ compared.called
    /\ IsCourse(compared.other)
    /\ compared.self.department = compared.other.department
    /\ HasHyphen(compared.self.number) \/ HasHyphen(compared.other.number)
    /\ int(strip(BeforeHyphen(compared.self.number)))
         = int(strip(BeforeHyphen(compared.other.number)))
    /\ StrLess(lstrip(compared.other.number), lstrip(compared.self.number))
    /\ compared.lt
    /\ ~compared.ge

---------------------------------------------------------------------------
(* Officer groups after creations, updates and deletions *)

\* the user has an Officer record with a position that satisfies has
HasOfficerRecord(u, has(_)) ==
    \E o \in officers : o.user = u /\ has(o.position)

\* C12: after any sequence of Officer creations, updates and deletions a user
\* is in the group <long_name> of a position if and only if the user has an
\* Officer record of that position, in Officer if and only if the user has
\* one of a non-auxiliary position, and in Executive if and only if the user
\* has one of an executive position.
C12_GroupsMatchOfficerRecords ==
    \A u \in Users :
        /\ \A p \in AllPositions :
              <<u, p.long_name>> \in members
                <=> HasOfficerRecord(u, LAMBDA q : q = p)
        /\ <<u, <<"Officer">> >> \in members
              <=> HasOfficerRecord(u, LAMBDA q : ~q.auxiliary)
        /\ <<u, <<"Executive">> >> \in members
              <=> HasOfficerRecord(u, LAMBDA q : q.executive)

====
